---- MODULE Spec2Model ----
(***************************************************************************)
(* Model of the D&D mechanics server (dnd_server.py): the dice roller, the *)
(* combat resolver, the ability-modifier calculator, the character store,  *)
(* the lifecycle of the store connections and the tasks the server has in  *)
(* flight; and of the game loop of the command-line client (dnd_cli.py).   *)
(*                                                                         *)
(* A dice notation is a Python str; it is modelled as a sequence of        *)
(* one-character strings, so that lower(), split('d') and int() are        *)
(* computed character by character as Python computes them.                *)
(***************************************************************************)
EXTENDS Integers, Sequences, FiniteSets, TLC

VARIABLES
    call,        \* the invocation last served: its name and arguments
    ret,         \* what that invocation returned or raised
    draws,       \* the values random.randint returned during it, in order
    fetched,     \* the Characters the Database returned to it, in order
    characters,  \* committed rows of the "characters" table, in rowid order
    seq,         \* sqlite_sequence of the table (AUTOINCREMENT high-water mark)
    schema,      \* whether the table exists in the database file
    proc,        \* the server process: stopped, serving or ended, and how
    handles,     \* the Database objects the process has connected
    global_db,   \* _global_db: None or the handle get_db created
    tasks,       \* the create_character invocations suspended in ctx.info
    created,     \* history: every character save_character has persisted
    cli          \* the command-line client: its game loop and what it printed

observed == <<call, ret, draws, fetched>>

file == <<characters, seq, schema>>

process == <<proc, handles, global_db, tasks, created>>

vars == <<call, ret, draws, fetched, characters, seq, schema, proc, handles,
          global_db, tasks, created, cli>>

----------------------------------------------------------------------------
(* Bounds of the model *)

MaxDice == 3       \* generated notations "NdS" have N in 0..MaxDice
MaxSides == 3      \* ... and S in 0..MaxSides
MaxMod == 1        \* modifiers and damage bonuses range over -MaxMod..MaxMod
MaxBonus == 5      \* attacker bonuses range over 0..MaxBonus
MaxScore == 22     \* ability scores given to calculate_modifier: -MaxScore..MaxScore
MaxLevel == 3      \* levels given to create_character: 0..MaxLevel
MaxChars == 2      \* create_character is called at most MaxChars times
MaxFaces == 8      \* the properties range over notations "NdS" with S in 1..MaxFaces
MaxTasks == 2      \* tool invocations in flight at the same time
MaxRuns == 2
MaxHighLevel == 20       \* times the server process is started on the same file

(* Constants of the program *)

DiceCap == 20      \* "if num_dice > 20"
D20 == 20          \* random.randint(1, 20)
BaseHP == 10       \* hit_points = 10 + con_modifier + ...
HPPerLevel == 6    \* ... (level - 1) * (6 + con_modifier)
BaseAC == 10       \* armor_class = 10 + dex_modifier
ModifierBase == 10 \* (ability_score - 10) // 2

----------------------------------------------------------------------------
(* Python str and int primitives used by roll_dice *)

Digits == <<"0", "1", "2", "3", "4", "5", "6", "7", "8", "9">>

IsDigit(c) == \E i \in 1..10 : Digits[i] = c

DigitVal(c) == (CHOOSE i \in 1..10 : Digits[i] = c) - 1

\* str.lower() of one character, over the letters the inputs contain
LowerChar(c) ==
    CASE c = "D" -> "d"
      [] c = "A" -> "a"
      [] c = "B" -> "b"
      [] c = "C" -> "c"
      [] OTHER -> c

\* str.lower()
Lower(s) == [i \in 1..Len(s) |-> LowerChar(s[i])]

\* str.split('d'): cut at every 'd'; a string without 'd' is one part
RECURSIVE Split(_)
Split(s) ==
    IF \E i \in 1..Len(s) : s[i] = "d"
    THEN LET i == CHOOSE k \in 1..Len(s) :
                      s[k] = "d" /\ \A j \in 1..(k - 1) : s[j] # "d"
         IN  <<SubSeq(s, 1, i - 1)>> \o Split(SubSeq(s, i + 1, Len(s)))
    ELSE <<s>>

\* str.strip() as int() applies it to its argument
RECURSIVE Strip(_)
Strip(s) ==
    IF s = <<>> THEN s
    ELSE IF Head(s) = " " THEN Strip(Tail(s))
    ELSE IF s[Len(s)] = " " THEN Strip(SubSeq(s, 1, Len(s) - 1))
    ELSE s

\* the digits of an int() literal: decimal digits, single underscores between
IsDigitString(s) ==
    /\ s # <<>>
    /\ IsDigit(s[1])
    /\ IsDigit(s[Len(s)])
    /\ \A i \in 1..Len(s) : IsDigit(s[i]) \/ s[i] = "_"
    /\ \A i \in 1..(Len(s) - 1) : ~(s[i] = "_" /\ s[i + 1] = "_")

RECURSIVE DigitStringVal(_)
DigitStringVal(s) ==
    IF s = <<>> THEN 0
    ELSE IF s[Len(s)] = "_" THEN DigitStringVal(SubSeq(s, 1, Len(s) - 1))
    ELSE 10 * DigitStringVal(SubSeq(s, 1, Len(s) - 1)) + DigitVal(s[Len(s)])

\* int(s): surrounding whitespace, an optional sign, then the digits;
\* anything else raises ValueError (ok = FALSE)
ParseInt(s) ==
    LET t == Strip(s)
        signed == t # <<>> /\ (t[1] = "+" \/ t[1] = "-")
        body == IF signed THEN Tail(t) ELSE t
    IN  IF IsDigitString(body)
        THEN [ok |-> TRUE,
              val |-> IF signed /\ t[1] = "-"
                      THEN 0 - DigitStringVal(body)
                      ELSE DigitStringVal(body)]
        ELSE [ok |-> FALSE, val |-> 0]

RECURSIVE Sum(_)
Sum(s) == IF s = <<>> THEN 0 ELSE Head(s) + Sum(Tail(s))

----------------------------------------------------------------------------
(* roll_dice *)

\* variant of ParseNotation with the cap test written ">= 20"
ParseNotation_CapOffByOne(dice_notation) ==
    LET parts == Split(Lower(dice_notation))
    IN  IF Len(parts) # 2
        THEN [ok |-> FALSE, msg |-> "Invalid dice notation. Use format like '1d20' or '2d6'"]
        ELSE IF ~ParseInt(parts[1]).ok \/ ~ParseInt(parts[2]).ok
        THEN [ok |-> FALSE, msg |-> "invalid literal for int() with base 10"]
        ELSE LET num_dice == ParseInt(parts[1]).val
                 num_sides == ParseInt(parts[2]).val
             IN  IF num_dice <= 0 \/ num_sides <= 0
                 THEN [ok |-> FALSE, msg |-> "Number of dice and sides must be positive"]
                 ELSE IF num_dice >= DiceCap
                 THEN [ok |-> FALSE, msg |-> "Maximum 20 dice per roll"]
                 ELSE [ok |-> TRUE, num_dice |-> num_dice, num_sides |-> num_sides]

\* the parsing and validation of roll_dice: either the ValueError raised
\* inside the try block or the two numbers
ParseNotation(dice_notation) ==
    LET parts == Split(Lower(dice_notation))
    IN  IF Len(parts) # 2
        THEN [ok |-> FALSE, msg |-> "Invalid dice notation. Use format like '1d20' or '2d6'"]
        ELSE IF ~ParseInt(parts[1]).ok \/ ~ParseInt(parts[2]).ok
        THEN [ok |-> FALSE, msg |-> "invalid literal for int() with base 10"]
        ELSE LET num_dice == ParseInt(parts[1]).val
                 num_sides == ParseInt(parts[2]).val
             IN  IF num_dice <= 0 \/ num_sides <= 0
                 THEN [ok |-> FALSE, msg |-> "Number of dice and sides must be positive"]
                 ELSE IF num_dice > DiceCap
                 THEN [ok |-> FALSE, msg |-> "Maximum 20 dice per roll"]
                 ELSE [ok |-> TRUE, num_dice |-> num_dice, num_sides |-> num_sides]

\* what [random.randint(1, num_sides) for _ in range(num_dice)] can produce;
\* no draw is made when validation fails
RollOutcomes(dice_notation) ==
    LET p == ParseNotation(dice_notation)
    IN  IF p.ok THEN [1..p.num_dice -> 1..p.num_sides] ELSE {<<>>}

\* variant of roll_dice whose total leaves the modifier out
roll_dice_NoModifier(dice_notation, modifier, rolls) ==
    LET p == ParseNotation(dice_notation)
    IN  IF p.ok
        THEN [kind |-> "DiceRoll",
              dice_notation |-> dice_notation,
              individual_rolls |-> rolls,
              total |-> Sum(rolls),
              modifier |-> modifier]
        ELSE [kind |-> "ValueError", prefix |-> "Dice rolling error: ", msg |-> p.msg]

\* roll_dice(dice_notation, modifier) when the draws come out as rolls
roll_dice(dice_notation, modifier, rolls) ==
    LET p == ParseNotation(dice_notation)
    IN  IF p.ok
        THEN [kind |-> "DiceRoll",
              dice_notation |-> dice_notation,
              individual_rolls |-> rolls,
              total |-> Sum(rolls) + modifier,
              modifier |-> modifier]
        ELSE [kind |-> "ValueError", prefix |-> "Dice rolling error: ", msg |-> p.msg]

----------------------------------------------------------------------------
(* attack_roll *)

NatCrit == 20      \* critical = attack_d20 == 20
NatMiss == 1       \* critical_miss = attack_d20 == 1

\* variant of AttackHit without "or critical"
AttackHit_NoCritical(attack_d20, attacker_bonus, target_ac) ==
    attack_d20 + attacker_bonus >= target_ac

\* "hit = attack_total >= target_ac or critical"
AttackHit(attack_d20, attacker_bonus, target_ac) ==
    (attack_d20 + attacker_bonus >= target_ac) \/ (attack_d20 = NatCrit)

\* variant of DamageBranch without "and not critical_miss"
DamageBranch_OnAnyHit(attack_d20, attacker_bonus, target_ac) ==
    (attack_d20 + attacker_bonus >= target_ac) \/ (attack_d20 = 20)

\* "if hit and not critical_miss": the branch that rolls damage
DamageBranch(attack_d20, attacker_bonus, target_ac) ==
    AttackHit(attack_d20, attacker_bonus, target_ac) /\ ~(attack_d20 = NatMiss)

\* Python's None, the value of an Optional field that is absent; an
\* Optional[int] that is present is the one-element sequence <<n>>
None == <<>>

\* variant of attack_roll whose second damage roll adds damage_bonus again
attack_roll_BonusTwice(attacker_bonus, target_ac, damage_dice, damage_bonus, attack_d20, rolls1, rolls2) ==
    LET attack_total == attack_d20 + attacker_bonus
        critical == attack_d20 = NatCrit
        critical_miss == attack_d20 = NatMiss
        hit == AttackHit(attack_d20, attacker_bonus, target_ac)
        damage_roll == roll_dice(damage_dice, damage_bonus, rolls1)
        crit_damage_roll == roll_dice(damage_dice, damage_bonus, rolls2)
    IN  IF DamageBranch(attack_d20, attacker_bonus, target_ac)
        THEN IF damage_roll.kind = "ValueError"
             THEN damage_roll                    \* raised by roll_dice, not caught
             ELSE IF critical
             THEN [kind |-> "AttackResult", hit |-> hit,
                   attack_roll |-> attack_total,
                   damage |-> <<damage_roll.total + crit_damage_roll.total>>,
                   critical |-> critical, description |-> "CRITICAL HIT!"]
             ELSE [kind |-> "AttackResult", hit |-> hit,
                   attack_roll |-> attack_total,
                   damage |-> <<damage_roll.total>>,
                   critical |-> critical, description |-> "Hit!"]
        ELSE [kind |-> "AttackResult", hit |-> hit,
              attack_roll |-> attack_total,
              damage |-> None,
              critical |-> critical,
              description |-> IF critical_miss THEN "Critical Miss!" ELSE "Miss!"]

\* attack_roll(...) when the d20 comes out as attack_d20 and the damage
\* rolls, where they are made, as rolls1 and rolls2
attack_roll(attacker_bonus, target_ac, damage_dice, damage_bonus, attack_d20, rolls1, rolls2) ==
    LET attack_total == attack_d20 + attacker_bonus
        critical == attack_d20 = NatCrit
        critical_miss == attack_d20 = NatMiss
        hit == AttackHit(attack_d20, attacker_bonus, target_ac)
        damage_roll == roll_dice(damage_dice, damage_bonus, rolls1)
        crit_damage_roll == roll_dice(damage_dice, 0, rolls2)
    IN  IF DamageBranch(attack_d20, attacker_bonus, target_ac)
        THEN IF damage_roll.kind = "ValueError"
             THEN damage_roll                    \* raised by roll_dice, not caught
             ELSE IF critical
             THEN [kind |-> "AttackResult", hit |-> hit,
                   attack_roll |-> attack_total,
                   damage |-> <<damage_roll.total + crit_damage_roll.total>>,
                   critical |-> critical, description |-> "CRITICAL HIT!"]
             ELSE [kind |-> "AttackResult", hit |-> hit,
                   attack_roll |-> attack_total,
                   damage |-> <<damage_roll.total>>,
                   critical |-> critical, description |-> "Hit!"]
        ELSE [kind |-> "AttackResult", hit |-> hit,
              attack_roll |-> attack_total,
              damage |-> None,
              critical |-> critical,
              description |-> IF critical_miss THEN "Critical Miss!" ELSE "Miss!"]

----------------------------------------------------------------------------
(* calculate_modifier and the derived stats of create_character *)

\* variant of calculate_modifier that truncates toward zero
calculate_modifier_Truncating(ability_score) ==
    IF ability_score >= ModifierBase
    THEN (ability_score - ModifierBase) \div 2
    ELSE 0 - ((ModifierBase - ability_score) \div 2)

\* variant of calculate_modifier that leaves the division out
calculate_modifier_Undivided(ability_score) == ability_score - ModifierBase

\* "(ability_score - 10) // 2": Python's // rounds toward minus infinity,
\* as \div does
calculate_modifier(ability_score) == (ability_score - ModifierBase) \div 2

\* variant of HitPoints that multiplies by level instead of level - 1
HitPoints_PerLevel(level, constitution) ==
    LET con_modifier == calculate_modifier(constitution)
    IN  BaseHP + con_modifier + (level * (HPPerLevel + con_modifier))

\* "hit_points = 10 + con_modifier + ((level - 1) * (6 + con_modifier))"
HitPoints(level, constitution) ==
    LET con_modifier == calculate_modifier(constitution)
    IN  BaseHP + con_modifier + ((level - 1) * (HPPerLevel + con_modifier))

\* variant of ArmorClass that adds the score instead of its modifier
ArmorClass_RawScore(dexterity) == BaseAC + dexterity

\* "armor_class = 10 + dex_modifier"
ArmorClass(dexterity) ==
    LET dex_modifier == calculate_modifier(dexterity)
    IN  BaseAC + dex_modifier

\* the Character(...) built by create_character; its id is still None
NewCharacter(name, character_class, level, strength, dexterity, constitution, intelligence, wisdom, charisma) ==
    [id |-> None,
     name |-> name,
     character_class |-> character_class,
     level |-> level,
     armor_class |-> ArmorClass(dexterity),
     hit_points |-> HitPoints(level, constitution),
     current_hp |-> HitPoints(level, constitution),
     strength |-> strength,
     dexterity |-> dexterity,
     constitution |-> constitution,
     intelligence |-> intelligence,
     wisdom |-> wisdom,
     charisma |-> charisma]

----------------------------------------------------------------------------
(* Database *)

RECURSIVE MaxRowId(_)
MaxRowId(rows) ==
    IF rows = <<>> THEN 0
    ELSE LET m == MaxRowId(Tail(rows))
         IN  IF Head(rows).id > m THEN Head(rows).id ELSE m

\* variant of NextRowId that numbers a row by the rows before it, and so
\* starts over when the process does not see them
NextRowId_NoIncrement(rows, sequence) ==
    IF MaxRowId(rows) > sequence THEN MaxRowId(rows) ELSE sequence

\* the rowid INTEGER PRIMARY KEY AUTOINCREMENT assigns to the next INSERT
NextRowId(rows, sequence) ==
    (IF MaxRowId(rows) > sequence THEN MaxRowId(rows) ELSE sequence) + 1

\* the row save_character inserts: the twelve columns it names, taken from
\* the character, and the generated id
InsertedRow(character, rowid) ==
    [id |-> rowid,
     name |-> character.name,
     character_class |-> character.character_class,
     level |-> character.level,
     armor_class |-> character.armor_class,
     hit_points |-> character.hit_points,
     current_hp |-> character.current_hp,
     strength |-> character.strength,
     dexterity |-> character.dexterity,
     constitution |-> character.constitution,
     intelligence |-> character.intelligence,
     wisdom |-> character.wisdom,
     charisma |-> character.charisma]

\* variant of RowToCharacter that reads armor_class one column to the left
RowToCharacter_ShiftedColumn(row) ==
    [id |-> <<row.id>>,
     name |-> row.name,
     character_class |-> row.character_class,
     level |-> row.level,
     armor_class |-> row.level,
     hit_points |-> row.hit_points,
     current_hp |-> row.current_hp,
     strength |-> row.strength,
     dexterity |-> row.dexterity,
     constitution |-> row.constitution,
     intelligence |-> row.intelligence,
     wisdom |-> row.wisdom,
     charisma |-> row.charisma]

\* the Character(...) get_character and list_characters build from a row
RowToCharacter(row) ==
    [id |-> <<row.id>>,
     name |-> row.name,
     character_class |-> row.character_class,
     level |-> row.level,
     armor_class |-> row.armor_class,
     hit_points |-> row.hit_points,
     current_hp |-> row.current_hp,
     strength |-> row.strength,
     dexterity |-> row.dexterity,
     constitution |-> row.constitution,
     intelligence |-> row.intelligence,
     wisdom |-> row.wisdom,
     charisma |-> row.charisma]

\* a Database object after connect(): an open sqlite connection with no
\* statement pending in a transaction
NewHandle(owner) == [owner |-> owner, open |-> TRUE, txn |-> <<>>]

\* variant of create_tables that drops the table and creates it again
create_tables_Recreate(db) == [schema |-> TRUE, characters |-> <<>>, seq |-> 0]

\* create_tables: CREATE TABLE IF NOT EXISTS, commit.  db is the database
\* file: whether the table exists, its rows and its sequence
create_tables(db) ==
    IF db.schema
    THEN db
    ELSE [schema |-> TRUE, characters |-> <<>>, seq |-> 0]

\* variant of connect that opens the file anew, without what it held
connect_Truncating(db) ==
    create_tables([schema |-> FALSE, characters |-> <<>>, seq |-> 0])

\* connect(): sqlite3.connect on the file, then create_tables
connect(db) == create_tables(db)

\* the rows a connection reads: the committed ones and those of its own
\* open transaction
Visible(rows, txn) == rows \o txn

\* variant of save_character without the commit: the INSERT stays in the
\* open transaction of the connection
save_character_NoCommit(rows, sequence, txn, character) ==
    LET rowid == NextRowId(Visible(rows, txn), sequence)
        inserted == Append(txn, InsertedRow(character, rowid))
    IN  [characters |-> rows,
         seq |-> sequence,
         txn |-> inserted,
         lastrowid |-> rowid]

\* variant of save_character whose statement replaces the rows of the table
save_character_Overwrites(rows, sequence, txn, character) ==
    LET rowid == NextRowId(Visible(rows, txn), sequence)
        inserted == Append(txn, InsertedRow(character, rowid))
    IN  [characters |-> inserted,
         seq |-> rowid,
         txn |-> <<>>,
         lastrowid |-> rowid]

\* save_character on a connection with open transaction txn: INSERT (which
\* joins the transaction), commit, return cursor.lastrowid
save_character(rows, sequence, txn, character) ==
    LET rowid == NextRowId(Visible(rows, txn), sequence)
        inserted == Append(txn, InsertedRow(character, rowid))
    IN  [characters |-> rows \o inserted,
         seq |-> rowid,
         txn |-> <<>>,
         lastrowid |-> rowid]

\* get_character: SELECT ... WHERE id = ?, fetchone; an Optional[Character]
get_character(rows, character_id) ==
    LET hits == {i \in 1..Len(rows) : rows[i].id = character_id}
    IN  IF hits = {}
        THEN None
        ELSE <<RowToCharacter(rows[CHOOSE i \in hits : \A j \in hits : i <= j])>>

\* variant of list_characters that leaves the last row out
list_characters_DropsLast(rows) ==
    [i \in 1..(IF rows = <<>> THEN 0 ELSE Len(rows) - 1) |->
        RowToCharacter(rows[i])]

\* list_characters: SELECT *, fetchall
list_characters(rows) == [i \in 1..Len(rows) |-> RowToCharacter(rows[i])]

----------------------------------------------------------------------------
(* Inputs *)

\* decimal digits of a natural number, the way a caller writes "NdS"
RECURSIVE Decimal(_)
Decimal(n) ==
    IF n < 10 THEN <<Digits[n + 1]>>
    ELSE Decimal(n \div 10) \o <<Digits[(n % 10) + 1]>>

Notation(n, s) == Decimal(n) \o <<"d">> \o Decimal(s)

\* notations given to roll_dice: every "NdS" within the bounds, the cap and
\* the first count above it, and strings that are not of the form "NdS"
Notations ==
    {Notation(n, s) : n \in 0..MaxDice, s \in 0..MaxSides}
    \cup {Notation(DiceCap, 1), Notation(DiceCap + 1, 6),
          Notation(0, 6), Notation(2, 0)}
    \cup {<<"d", "6">>, <<"2", "d">>, <<"a", "b", "c">>, <<>>, <<"d">>,
          <<"2", "D", "2">>, <<"1", "d", "2", "d", "3">>,
          <<" ", "1", "d", "2", " ">>, <<"+", "1", "d", "2">>,
          <<"-", "1", "d", "6">>, <<"1", "d", "-", "2">>,
          <<"0", "2", "d", "1", "_", "0">>, <<"1", "_", "d", "2">>,
          <<"2", "d", "a">>, <<"A", "d", "2">>}

Modifiers == (0 - MaxMod)..MaxMod

\* damage dice given to attack_roll: the default "1d8", other well-formed
\* notations and malformed ones
DamageNotations ==
    {Notation(1, 8), Notation(1, 2), Notation(2, 2),
     <<"a", "b", "c">>, Notation(0, 6), <<"2", "d">>}

AttackerBonuses == 0..MaxBonus

TargetACs == {0, 3, 15, 25}

Scores == (0 - MaxScore)..MaxScore

Names == {"Test Hero"}

Classes == {"Fighter"}

Levels == 0..MaxLevel

Strengths == {8, 16}

Dexterities == {9, 14}

Constitutions == {3, 14, 15}

----------------------------------------------------------------------------
(* Inputs of the server with its store *)

\* the create_character requests of the clients: the one of test_server.py
\* and one that differs from it in every argument
ClientRequests ==
    {[op |-> "create_character", name |-> "Test Hero",
      character_class |-> "Fighter", level |-> 1, strength |-> 16,
      dexterity |-> 14, constitution |-> 15, intelligence |-> 12,
      wisdom |-> 13, charisma |-> 10],
     [op |-> "create_character", name |-> "Hero",
      character_class |-> "Wizard", level |-> 3, strength |-> 8,
      dexterity |-> 9, constitution |-> 14, intelligence |-> 17,
      wisdom |-> 11, charisma |-> 7]}

\* the create_character requests that vary level and the scores the derived
\* stats depend on
CreateRequests ==
    {[op |-> "create_character", name |-> name,
      character_class |-> character_class, level |-> level,
      strength |-> strength, dexterity |-> dexterity,
      constitution |-> constitution, intelligence |-> 12,
      wisdom |-> 13, charisma |-> 10] :
        name \in Names, character_class \in Classes, level \in Levels,
        strength \in Strengths, dexterity \in Dexterities,
        constitution \in Constitutions}

\* the create_character requests over every score, the levels up to a high
\* one, level 0 and the negative levels
DerivedRequests ==
    {[op |-> "create_character", name |-> "Test Hero",
      character_class |-> "Fighter", level |-> level, strength |-> 16,
      dexterity |-> 14, constitution |-> constitution, intelligence |-> 12,
      wisdom |-> 13, charisma |-> 10] :
        level \in (0 - MaxLevel)..MaxHighLevel, constitution \in Scores}

\* ids given to get_character_info: those of the rows there can be, 0 and
\* one more
CharacterIds == 0..(MaxChars + 1)

\* ids given to the character sheet resource, as the strings of its URI
SheetIds ==
    {Decimal(n) : n \in CharacterIds}
    \cup {<<"a", "b", "c">>, <<>>, <<" ", "1">>, <<"-", "1">>, <<"1", "d">>}

Tasks == 1..MaxTasks

----------------------------------------------------------------------------
(* The server: initial states *)

NoCall == [op |-> "none"]

NoResult == [kind |-> "none"]

Idle == [pc |-> "idle"]

\* the client is not in use
CliOff == [loop |-> "off"]

\* no server process yet, and a database file without the table
Init ==
    /\ call = NoCall
    /\ ret = NoResult
    /\ draws = <<>>
    /\ fetched = <<>>
    /\ characters = <<>>
    /\ seq = 0
    /\ schema = FALSE
    /\ proc = [state |-> "stopped", runs |-> 0, exit |-> "none"]
    /\ handles = <<>>
    /\ global_db = None
    /\ tasks = [t \in Tasks |-> Idle]
    /\ created = <<>>
    /\ cli = CliOff

\* the requests a client sends to the tools that compute without the store
MechanicsRequests ==
    {[op |-> "roll_dice", dice_notation |-> n, modifier |-> m] :
        n \in Notations, m \in Modifiers}
    \cup {[op |-> "attack_roll", attacker_bonus |-> ab, target_ac |-> ac,
           damage_dice |-> dd, damage_bonus |-> db] :
            ab \in AttackerBonuses, ac \in TargetACs,
            dd \in DamageNotations, db \in Modifiers}
    \cup {[op |-> "calculate_modifier", ability_score |-> a] : a \in Scores}

\* the server process after app_lifespan has connected to a new file
Serving ==
    /\ draws = <<>>
    /\ fetched = <<>>
    /\ characters = <<>>
    /\ seq = 0
    /\ schema = TRUE
    /\ proc = [state |-> "serving", runs |-> 1, exit |-> "none"]
    /\ handles = <<NewHandle("lifespan")>>
    /\ global_db = None
    /\ tasks = [t \in Tasks |-> Idle]
    /\ created = <<>>
    /\ cli = CliOff

\* the server with one request to a computing tool received and not served
InitMechanics ==
    /\ call \in MechanicsRequests
    /\ ret = NoResult
    /\ Serving

\* the server serving, before any request
InitCharacters ==
    /\ call = NoCall
    /\ ret = NoResult
    /\ Serving

\* the server with one create_character request received and not served
InitDerived ==
    /\ call \in DerivedRequests
    /\ ret = NoResult
    /\ Serving

----------------------------------------------------------------------------
(* The tools that compute without the store *)

\* tool roll_dice
RollDice ==
    /\ call.op = "roll_dice"
    /\ ret = NoResult
    /\ \E rolls \in RollOutcomes(call.dice_notation) :
        /\ ret' = roll_dice(call.dice_notation, call.modifier, rolls)
        /\ draws' = rolls
    /\ UNCHANGED <<call, fetched, file, process, cli>>

\* tool attack_roll
AttackRoll ==
    /\ call.op = "attack_roll"
    /\ ret = NoResult
    /\ \E attack_d20 \in 1..D20 :
        LET rolling == DamageBranch(attack_d20, call.attacker_bonus,
                                    call.target_ac)
            twice == rolling /\ ParseNotation(call.damage_dice).ok
                             /\ attack_d20 = NatCrit
        IN  \E rolls1 \in IF rolling THEN RollOutcomes(call.damage_dice)
                                     ELSE {<<>>},
               rolls2 \in IF twice THEN RollOutcomes(call.damage_dice)
                                   ELSE {<<>>} :
              /\ ret' = attack_roll(call.attacker_bonus, call.target_ac,
                                    call.damage_dice, call.damage_bonus,
                                    attack_d20, rolls1, rolls2)
              /\ draws' = <<attack_d20>> \o rolls1 \o rolls2
    /\ UNCHANGED <<call, fetched, file, process, cli>>

\* tool calculate_modifier
CalculateModifier ==
    /\ call.op = "calculate_modifier"
    /\ ret = NoResult
    /\ ret' = [kind |-> "int", value |-> calculate_modifier(call.ability_score)]
    /\ UNCHANGED <<call, draws, fetched, file, process, cli>>

----------------------------------------------------------------------------
(* The lifecycle of the server process *)

\* the database file as the three variables hold it
DbFile == [schema |-> schema, characters |-> characters, seq |-> seq]

\* ctx.request_context.lifespan_context.db: the handle app_lifespan made,
\* the first one of the process
LifespanDb == 1

\* mcp.run() enters app_lifespan: Database().connect() succeeds and the
\* server starts serving.  A new process starts with _global_db = None.
Startup ==
    /\ proc.state \in {"stopped", "ended"}
    /\ proc.runs < MaxRuns
    /\ LET db == connect(DbFile)
       IN  /\ schema' = db.schema
           /\ characters' = db.characters
           /\ seq' = db.seq
    /\ proc' = [state |-> "serving", runs |-> proc.runs + 1, exit |-> "none"]
    /\ handles' = <<NewHandle("lifespan")>>
    /\ global_db' = None
    /\ tasks' = [t \in Tasks |-> Idle]
    /\ UNCHANGED <<observed, created, cli>>

\* mcp.run() enters app_lifespan and create_tables raises inside connect():
\* sqlite3.connect has opened the connection, the exception leaves
\* app_lifespan before its try block and the process ends
StartupSchemaFailure ==
    /\ proc.state \in {"stopped", "ended"}
    /\ proc.runs < MaxRuns
    /\ proc' = [state |-> "ended", runs |-> proc.runs + 1,
                exit |-> "schema_failure"]
    /\ handles' = <<NewHandle("lifespan")>>
    /\ global_db' = None
    /\ tasks' = [t \in Tasks |-> Idle]
    /\ UNCHANGED <<observed, file, created, cli>>

\* disconnect(): close the connection if there is one
disconnect(handle) == [handle EXCEPT !.open = FALSE]

\* the server stops, normally or on an error raised while serving: the
\* finally block of app_lifespan disconnects its handle; the invocations in
\* flight are cancelled
Shutdown ==
    /\ proc.state = "serving"
    /\ \E exit \in {"normal", "error"} :
        proc' = [proc EXCEPT !.state = "ended", !.exit = exit]
    /\ handles' = [handles EXCEPT ![LifespanDb] = disconnect(handles[LifespanDb])]
    /\ tasks' = [t \in Tasks |-> Idle]
    /\ UNCHANGED <<observed, file, global_db, created, cli>>

----------------------------------------------------------------------------
(* The tools that use the store *)

\* tool create_character up to its "await ctx.info": build the character,
\* save_character through the lifespan handle, set the generated id.
\* Nothing in save_character suspends, so this is one step of the event loop.
CreateCharacter(t, request) ==
    /\ proc.state = "serving"
    /\ tasks[t] = Idle
    /\ Len(created) < MaxChars
    /\ LET character == NewCharacter(request.name, request.character_class,
                                     request.level, request.strength,
                                     request.dexterity, request.constitution,
                                     request.intelligence, request.wisdom,
                                     request.charisma)
           saved == save_character(characters, seq, handles[LifespanDb].txn,
                                   character)
           character_id == saved.lastrowid
           returned == [character EXCEPT !.id = <<character_id>>]
       IN  /\ characters' = saved.characters
           /\ seq' = saved.seq
           /\ handles' = [handles EXCEPT ![LifespanDb].txn = saved.txn]
           /\ tasks' = [tasks EXCEPT ![t] = [pc |-> "ctx_info",
                                             request |-> request,
                                             character |-> returned]]
           /\ created' = Append(created, [request |-> request,
                                          character |-> returned,
                                          returned |-> FALSE])
    /\ UNCHANGED <<observed, schema, proc, global_db, cli>>

\* create_character from "await ctx.info" on: the notification is sent and
\* the character is returned
CreateReturn(t) ==
    /\ proc.state = "serving"
    /\ tasks[t].pc = "ctx_info"
    /\ call' = tasks[t].request
    /\ ret' = [kind |-> "Character", character |-> tasks[t].character]
    /\ draws' = <<>>
    /\ fetched' = <<>>
    /\ tasks' = [tasks EXCEPT ![t] = Idle]
    /\ created' = [i \in 1..Len(created) |->
                     IF created[i].character = tasks[t].character
                     THEN [created[i] EXCEPT !.returned = TRUE]
                     ELSE created[i]]
    /\ UNCHANGED <<file, proc, handles, global_db, cli>>

\* what get_character_info does with the Optional[Character] it got
get_character_info(character_id, character) ==
    IF character = None
    THEN [kind |-> "ValueError", prefix |-> "Character with ID ",
          character_id |-> character_id, msg |-> " not found"]
    ELSE [kind |-> "Character", character |-> character[1]]

\* tool get_character_info, through the lifespan handle
GetCharacterInfo ==
    /\ proc.state = "serving"
    /\ \E character_id \in CharacterIds :
        LET character == get_character(
                Visible(characters, handles[LifespanDb].txn), character_id)
        IN  /\ call' = [op |-> "get_character_info",
                        character_id |-> character_id]
            /\ ret' = get_character_info(character_id, character)
            /\ fetched' = character
    /\ draws' = <<>>
    /\ UNCHANGED <<file, process, cli>>

\* tool create_character serving the request received
CreateRequested ==
    /\ call.op = "create_character"
    /\ ret = NoResult
    /\ created = <<>>
    /\ CreateCharacter(1, call)

----------------------------------------------------------------------------
(* The resources *)

\* variant of get_db without the "is None" test: it connects every time
get_db_AlwaysConnects(hs, gdb, db) ==
    [handles |-> Append(hs, NewHandle("global")),
     global_db |-> <<Len(hs) + 1>>,
     db |-> connect(db),
     handle |-> Len(hs) + 1]

\* get_db(): the handle of _global_db, connected first if there is none.
\* Nothing in it suspends.  The result is the state it leaves: the handles,
\* _global_db and the database file, and the handle it returns.
get_db(hs, gdb, db) ==
    IF gdb = None
    THEN [handles |-> Append(hs, NewHandle("global")),
          global_db |-> <<Len(hs) + 1>>,
          db |-> connect(db),
          handle |-> Len(hs) + 1]
    ELSE [handles |-> hs, global_db |-> gdb, db |-> db, handle |-> gdb[1]]

\* the text of a character sheet: the fields the f-string renders
SheetText(character) ==
    [template |-> "sheet",
     name |-> character.name,
     level |-> character.level,
     character_class |-> character.character_class,
     abilities |-> <<
        <<character.strength, calculate_modifier(character.strength)>>,
        <<character.dexterity, calculate_modifier(character.dexterity)>>,
        <<character.constitution, calculate_modifier(character.constitution)>>,
        <<character.intelligence, calculate_modifier(character.intelligence)>>,
        <<character.wisdom, calculate_modifier(character.wisdom)>>,
        <<character.charisma, calculate_modifier(character.charisma)>> >>,
     armor_class |-> character.armor_class,
     current_hp |-> character.current_hp,
     hit_points |-> character.hit_points]

\* variant of get_character_sheet that reports a missing character as an
\* invalid id
get_character_sheet_InvalidForMissing(character_id, character) ==
    IF character = None
    THEN [template |-> "Invalid character ID: {character_id}",
          character_id |-> character_id]
    ELSE SheetText(character[1])

\* the text get_character_sheet returns once int(character_id) succeeded
\* and get_character answered
get_character_sheet(character_id, character) ==
    IF character = None
    THEN [template |-> "Character {character_id} not found",
          character_id |-> character_id]
    ELSE SheetText(character[1])

\* resource character://{character_id}
GetCharacterSheet ==
    /\ proc.state = "serving"
    /\ \E character_id \in SheetIds :
        LET char_id == ParseInt(character_id)
            got == get_db(handles, global_db, DbFile)
            character == get_character(
                Visible(got.db.characters, got.handles[got.handle].txn),
                char_id.val)
        IN  /\ call' = [op |-> "get_character_sheet",
                        character_id |-> character_id]
            /\ IF char_id.ok
               THEN /\ handles' = got.handles
                    /\ global_db' = got.global_db
                    /\ schema' = got.db.schema
                    /\ characters' = got.db.characters
                    /\ seq' = got.db.seq
                    /\ fetched' = character
                    /\ ret' = [kind |-> "str",
                               text |-> get_character_sheet(character_id,
                                                            character)]
               ELSE \* int() raised ValueError before get_db was called
                    /\ UNCHANGED <<handles, global_db, file>>
                    /\ fetched' = <<>>
                    /\ ret' = [kind |-> "str",
                               text |-> [template |-> "Invalid character ID: {character_id}",
                                         character_id |-> character_id]]
    /\ draws' = <<>>
    /\ UNCHANGED <<proc, tasks, created, cli>>

\* the text list_all_characters renders from the list it got
list_all_characters(listed) ==
    IF listed = <<>>
    THEN [template |-> "No characters found."]
    ELSE [template |-> "# All Characters",
          lines |-> [i \in 1..Len(listed) |->
                        [name |-> listed[i].name,
                         id |-> listed[i].id[1],
                         level |-> listed[i].level,
                         character_class |-> listed[i].character_class]]]

\* resource characters://list
ListAllCharacters ==
    /\ proc.state = "serving"
    /\ LET got == get_db(handles, global_db, DbFile)
           listed == list_characters(
               Visible(got.db.characters, got.handles[got.handle].txn))
       IN  /\ handles' = got.handles
           /\ global_db' = got.global_db
           /\ schema' = got.db.schema
           /\ characters' = got.db.characters
           /\ seq' = got.db.seq
           /\ fetched' = listed
           /\ ret' = [kind |-> "str", text |-> list_all_characters(listed)]
    /\ call' = [op |-> "list_all_characters"]
    /\ draws' = <<>>
    /\ UNCHANGED <<proc, tasks, created, cli>>

----------------------------------------------------------------------------
(* The prompts *)

\* prompt generate_character_name: the f-string and what it renders
generate_character_name(race, gender, style) ==
    [template |-> "Generate a {style} name for a {race} character.",
     style |-> style, race |-> race, gender |-> gender]

\* prompt describe_combat_action
describe_combat_action(attacker_name, target_name, weapon, result) ==
    [template |-> "Describe in vivid detail how {attacker_name} attacks {target_name} with a {weapon}.",
     attacker_name |-> attacker_name, target_name |-> target_name,
     weapon |-> weapon, result |-> result]

\* prompt describe_location: "if details:" adds the elements
describe_location(location_type, mood, details) ==
    [template |-> "Describe a {location_type} with a {mood} atmosphere for a D&D adventure.",
     location_type |-> location_type, mood |-> mood,
     elements |-> IF details # "" THEN <<details>> ELSE None]

\* the prompts a client asks for: the defaults and other arguments
PromptRequests ==
    {[op |-> "generate_character_name", race |-> "Human", gender |-> "any",
      style |-> "fantasy"],
     [op |-> "describe_combat_action", attacker_name |-> "Test Hero",
      target_name |-> "goblin", weapon |-> "sword", result |-> "Hit!"],
     [op |-> "describe_location", location_type |-> "dungeon room",
      mood |-> "mysterious", details |-> ""],
     [op |-> "describe_location", location_type |-> "tavern",
      mood |-> "merry", details |-> "a bard"]}

\* the text a prompt renders for a request
PromptText(request) ==
    CASE request.op = "generate_character_name" ->
            generate_character_name(request.race, request.gender,
                                    request.style)
      [] request.op = "describe_combat_action" ->
            describe_combat_action(request.attacker_name, request.target_name,
                                   request.weapon, request.result)
      [] request.op = "describe_location" ->
            describe_location(request.location_type, request.mood,
                              request.details)

\* a prompt is served: none of them reads or writes the store
GetPrompt ==
    /\ proc.state = "serving"
    /\ \E request \in PromptRequests :
        /\ call' = request
        /\ ret' = [kind |-> "str", text |-> PromptText(request)]
    /\ draws' = <<>>
    /\ fetched' = <<>>
    /\ UNCHANGED <<file, process, cli>>

----------------------------------------------------------------------------
(* The command line client, dnd_cli.py: what a command leaves behind *)

\* "if total >= 18" and "elif total <= 5": the rolls the client has narrated
AmazingRoll == 18
TerribleRoll == 5

\* "difficulty = 15  # Standard DC"
difficulty == 15

\* the arguments combat_encounter passes: initiative modifier, attacker
\* bonus, target AC and damage bonus
InitiativeModifier == 2
CombatBonus == 5
CombatAC == 13
CombatDamageBonus == 3

\* the damage bonus DnDGame.attack_roll passes
AttackDamageBonus == 2

\* "c in s"
Contains(s, c) == \E i \in 1..Len(s) : s[i] = c

\* s.split(sep) for a separator of one character
RECURSIVE SplitOn(_, _)
SplitOn(s, sep) ==
    IF Contains(s, sep)
    THEN LET i == CHOOSE k \in 1..Len(s) :
                      s[k] = sep /\ \A j \in 1..(k - 1) : s[j] # sep
         IN  <<SubSeq(s, 1, i - 1)>> \o SplitOn(SubSeq(s, i + 1, Len(s)), sep)
    ELSE <<s>>

\* one thing a command did that the player or the narration service sees,
\* in the order it happened: a tool call that returned, a line printed from
\* a result, a request to the narration service
Tool(result) == [event |-> "tool", result |-> result]

Printed(line, result) == [event |-> "print", line |-> line, result |-> result]

AiCall(outcome) == [event |-> "ai_call", outcome |-> outcome]

\* self.ai_client.chat.completions.create(...): it answers or it raises
AiOutcomes == {"ok", "raised"}

\* how a handler of the client ends: what it did, the exception that left
\* it ("none" when it returned) and self.character_id
Done(trace, raised, character_id) ==
    [trace |-> trace, raised |-> raised, character_id |-> character_id]

\* ai_describe: the request is inside try, "except Exception" prints the
\* failure; nothing leaves the method
ai_describe(ai) ==
    <<AiCall(ai),
      IF ai = "ok" THEN Printed("narration", NoResult)
                   ELSE Printed("ai_failed", NoResult)>>

\* the parsing DnDGame.roll_dice does before it calls the tool: the
\* two-name unpacking of split('+') or split('-') and int(modifier)
ParseRollCommand(dice_str) ==
    LET plus == Contains(dice_str, "+")
        minus == Contains(dice_str, "-")
        parts == IF plus THEN SplitOn(dice_str, "+")
                 ELSE IF minus THEN SplitOn(dice_str, "-")
                 ELSE <<dice_str, <<"0">>>>
    IN  IF Len(parts) # 2 \/ ~ParseInt(parts[Len(parts)]).ok
        THEN [ok |-> FALSE, dice |-> <<>>, modifier |-> 0]
        ELSE [ok |-> TRUE,
              dice |-> Strip(parts[1]),
              modifier |-> IF plus THEN ParseInt(parts[2]).val
                           ELSE IF minus THEN 0 - ParseInt(parts[2]).val
                           ELSE 0]

\* DnDGame.roll_dice: everything is inside try, "except Exception" prints
\* "Invalid dice format"; a tool call that failed has no structuredContent
\* to read the rolls from
DnDGame_roll_dice(dice_str, rolls, ai, character_id) ==
    LET args == ParseRollCommand(dice_str)
        result == roll_dice(args.dice, args.modifier, rolls)
    IN  IF ~args.ok
        THEN Done(<<Printed("invalid_dice", NoResult)>>, "none", character_id)
        ELSE IF result.kind = "ValueError"
        THEN Done(<<Tool(result), Printed("invalid_dice", NoResult)>>,
                  "none", character_id)
        ELSE Done(<<Tool(result), Printed("roll", result)>>
                  \o (IF result.total >= AmazingRoll
                         \/ result.total <= TerribleRoll
                      THEN ai_describe(ai) ELSE <<>>),
                  "none", character_id)

\* DnDGame.attack_roll: int() of both arguments and the rest are inside
\* try, "except ValueError" prints the usage
DnDGame_attack_roll(bonus_str, ac_str, result, ai, character_id) ==
    IF ~ParseInt(bonus_str).ok \/ ~ParseInt(ac_str).ok
    THEN Done(<<Printed("attack_usage", NoResult)>>, "none", character_id)
    ELSE IF result.kind = "ValueError"
    THEN Done(<<Tool(result)>>, "TypeError", character_id)
    ELSE Done(<<Tool(result), Printed("attack", result)>> \o ai_describe(ai),
              "none", character_id)

\* the score skill_check reads for a skill, if it knows the skill
SkillAbility(skill, char_data) ==
    CASE skill = "perception" -> <<char_data.wisdom>>
      [] skill = "stealth" -> <<char_data.dexterity>>
      [] skill = "intimidation" -> <<char_data.charisma>>
      [] skill = "athletics" -> <<char_data.strength>>
      [] skill = "investigation" -> <<char_data.intelligence>>
      [] OTHER -> None

\* the modifier skill_check passes to the roll: 0 without a character or
\* for a skill it does not know.  info is what get_character_info answered
SkillModifier(skill, character_id, info) ==
    IF character_id = None \/ SkillAbility(skill, info.character) = None
    THEN 0
    ELSE (SkillAbility(skill, info.character)[1] - ModifierBase) \div 2

\* DnDGame.skill_check: no try in it
DnDGame_skill_check(skill, info, result, ai, character_id) ==
    IF character_id # None /\ info.kind = "ValueError"
    THEN Done(<<Tool(info)>>, "TypeError", character_id)
    ELSE Done((IF character_id # None THEN <<Tool(info)>> ELSE <<>>)
              \o <<Tool(result), Printed("check", result),
                   Printed(IF result.total >= difficulty
                           THEN "SUCCESS" ELSE "FAILURE", NoResult)>>
              \o ai_describe(ai),
              "none", character_id)

\* DnDGame.combat_encounter: the narration request is made outside any try
DnDGame_combat_encounter(init_result, attack_result, ai, character_id) ==
    Done(<<Tool(init_result), Printed("initiative", init_result),
           Tool(attack_result), Printed("combat_attack", attack_result),
           AiCall(ai)>>
         \o (IF ai = "ok" THEN <<Printed("narration", NoResult)>> ELSE <<>>),
         IF ai = "ok" THEN "none" ELSE "APIConnectionError",
         character_id)

\* DnDGame.show_character
DnDGame_show_character(info, character_id) ==
    IF character_id = None
    THEN Done(<<Printed("no_character", NoResult)>>, "none", character_id)
    ELSE IF info.kind = "ValueError"
    THEN Done(<<Tool(info)>>, "TypeError", character_id)
    ELSE Done(<<Tool(info), Printed("character", info)>>, "none", character_id)

\* the four 1d6 rolls of one ability: "rolls.sort(reverse=True)" and
\* "sum(rolls[:3])", the three highest
AbilityScore(rolls) ==
    LET lowest == CHOOSE i \in 1..Len(rolls) :
                      \A j \in 1..Len(rolls) : rolls[i] <= rolls[j]
    IN  Sum(rolls) - rolls[lowest]

\* classes.get(class_choice, "Fighter")
ClassChoice(class_choice) ==
    CASE class_choice = "1" -> "Fighter"
      [] class_choice = "2" -> "Wizard"
      [] class_choice = "3" -> "Rogue"
      [] class_choice = "4" -> "Cleric"
      [] OTHER -> "Fighter"

\* variant of game_loop without the "except Exception" clause: an exception
\* that leaves a handler leaves the loop
game_loop_NoCatchAll(state, done) ==
    IF done.raised = "none"
    THEN [state EXCEPT !.pc = "input", !.trace = done.trace,
                       !.character_id = done.character_id]
    ELSE [state EXCEPT !.loop = "ended", !.pc = "input",
                       !.trace = done.trace,
                       !.character_id = done.character_id]

\* one turn of the "while True" of game_loop after the handler of the
\* command ended as done: "except Exception" prints the error, and the loop
\* asks for the next command either way
game_loop(state, done) ==
    IF done.raised = "none"
    THEN [state EXCEPT !.pc = "input", !.trace = done.trace,
                       !.character_id = done.character_id]
    ELSE [state EXCEPT !.pc = "input",
                       !.trace = Append(done.trace, Printed("error", NoResult)),
                       !.character_id = done.character_id]

----------------------------------------------------------------------------
(* The command line client: inputs and steps *)

\* what the player answers to the prompts of "create" and the 1d6 rolls of
\* the six abilities, four each: the defaults with an unreadable level, the
\* defaults, and a choice of everything
CreateInputs ==
    {[op |-> "create", name |-> "", class_choice |-> "", level |-> <<"x">>,
      rolls |-> [a \in 1..6 |-> <<3, 3, 3, 3>>]],
     [op |-> "create", name |-> "", class_choice |-> "", level |-> <<>>,
      rolls |-> [a \in 1..6 |-> <<6, 5, 1, 4>>]],
     [op |-> "create", name |-> "Test Hero", class_choice |-> "2",
      level |-> <<"3">>,
      rolls |-> <<<<1, 1, 1, 1>>, <<6, 6, 6, 6>>, <<2, 4, 3, 1>>,
                  <<5, 5, 5, 5>>, <<1, 6, 6, 6>>, <<2, 2, 3, 2>>>>]}

\* what follows "roll ": with and without a modifier, and unreadable ones
RollInputs ==
    {Notation(1, D20), Notation(2, 3) \o <<"+", "1">>,
     Notation(1, 4) \o <<" ", "-", "1">>, <<"a", "b", "c">>,
     Notation(1, 6) \o <<"+">>, Notation(1, 6) \o <<"+", "1", "+", "1">>}

\* what follows "attack ", split at the blanks
AttackInputs ==
    {<<Decimal(5), Decimal(15)>>, <<Decimal(0), Decimal(25)>>,
     <<<<"x">>, Decimal(15)>>, <<Decimal(5)>>}

\* what follows "check "
Skills == {"perception", "stealth", "dance"}

\* the lines the player types
CliCommands ==
    {[op |-> "quit"], [op |-> "help"], [op |-> "character"],
     [op |-> "describe"], [op |-> "combat"], [op |-> "unknown"]}
    \cup CreateInputs
    \cup {[op |-> "roll", dice |-> Lower(d)] : d \in RollInputs}
    \cup {[op |-> "attack", parts |-> p] : p \in AttackInputs}
    \cup {[op |-> "check", skill |-> s] : s \in Skills}

\* game_loop is in the branch of the command it read
Dispatching(op) ==
    /\ cli.loop = "running"
    /\ cli.pc = "dispatch"
    /\ cli.command.op = op

\* main(): DnDGame(), start() and the first lines of game_loop, up to the
\* prompt; the server the client talks to is serving
CliStart ==
    /\ cli = CliOff
    /\ proc.state = "serving"
    /\ cli' = [loop |-> "running", pc |-> "input", command |-> NoCall,
               trace |-> <<>>, character_id |-> None]
    /\ UNCHANGED <<observed, file, process>>

\* "command = input(...).strip().lower()"
ReadCommand ==
    /\ cli.loop = "running"
    /\ cli.pc = "input"
    /\ \E command \in CliCommands :
        cli' = [cli EXCEPT !.pc = "dispatch", !.command = command,
                           !.trace = <<>>]
    /\ UNCHANGED <<observed, file, process>>

\* Ctrl-C at the prompt: "except KeyboardInterrupt" leaves the loop
CliInterrupt ==
    /\ cli.loop = "running"
    /\ cli.pc = "input"
    /\ cli' = [cli EXCEPT !.loop = "ended",
                          !.trace = <<Printed("goodbye", NoResult)>>]
    /\ UNCHANGED <<observed, file, process>>

\* "quit"
CliQuit ==
    /\ Dispatching("quit")
    /\ cli' = [cli EXCEPT !.loop = "ended", !.pc = "input",
                          !.trace = <<Printed("goodbye", NoResult)>>]
    /\ UNCHANGED <<observed, file, process>>

\* "help"
CliHelp ==
    /\ Dispatching("help")
    /\ cli' = game_loop(cli, Done(<<Printed("commands", NoResult)>>, "none",
                                  cli.character_id))
    /\ UNCHANGED <<observed, file, process>>

\* a line that is no command
CliUnknown ==
    /\ Dispatching("unknown")
    /\ cli' = game_loop(cli, Done(<<Printed("unknown", NoResult)>>, "none",
                                  cli.character_id))
    /\ UNCHANGED <<observed, file, process>>

\* "create": DnDGame.create_character.  The server runs its create_character
\* tool to the end before the client goes on.
CliCreate ==
    /\ Dispatching("create")
    /\ Len(created) < MaxChars
    /\ \E ai \in AiOutcomes :
        LET c == cli.command
            name == IF c.name = "" THEN "Hero" ELSE c.name
            char_class == ClassChoice(c.class_choice)
            level == ParseInt(IF c.level = <<>> THEN <<"1">> ELSE c.level)
            score == [a \in 1..6 |-> AbilityScore(c.rolls[a])]
            request == [op |-> "create_character", name |-> name,
                        character_class |-> char_class, level |-> level.val,
                        strength |-> score[1], dexterity |-> score[2],
                        constitution |-> score[3], intelligence |-> score[4],
                        wisdom |-> score[5], charisma |-> score[6]]
            character == NewCharacter(name, char_class, level.val, score[1],
                                      score[2], score[3], score[4], score[5],
                                      score[6])
            saved == save_character(characters, seq, handles[LifespanDb].txn,
                                    character)
            returned == [character EXCEPT !.id = <<saved.lastrowid>>]
            result == [kind |-> "Character", character |-> returned]
        IN  IF ~level.ok
            THEN /\ cli' = game_loop(cli, Done(<<>>, "ValueError",
                                               cli.character_id))
                 /\ UNCHANGED <<file, handles, created>>
            ELSE /\ characters' = saved.characters
                 /\ seq' = saved.seq
                 /\ handles' = [handles EXCEPT ![LifespanDb].txn = saved.txn]
                 /\ created' = Append(created, [request |-> request,
                                                character |-> returned,
                                                returned |-> TRUE])
                 /\ cli' = game_loop(cli,
                        Done([a \in 1..6 |->
                                 Printed("ability", [kind |-> "int",
                                                     value |-> score[a]])]
                             \o <<Tool(result), Printed("created", result)>>
                             \o ai_describe(ai),
                             "none", returned.id))
                 /\ UNCHANGED schema
    /\ UNCHANGED <<observed, proc, global_db, tasks>>

\* what the get_character_info tool answers the client about its character
CharacterInfo ==
    IF cli.character_id = None
    THEN NoResult
    ELSE get_character_info(cli.character_id[1],
            get_character(Visible(characters, handles[LifespanDb].txn),
                          cli.character_id[1]))

\* "character"
CliCharacter ==
    /\ Dispatching("character")
    /\ cli' = game_loop(cli, DnDGame_show_character(CharacterInfo,
                                                    cli.character_id))
    /\ UNCHANGED <<observed, file, process>>

\* "roll <dice>"
CliRoll ==
    /\ Dispatching("roll")
    /\ \E rolls \in RollOutcomes(ParseRollCommand(cli.command.dice).dice),
          ai \in AiOutcomes :
        cli' = game_loop(cli, DnDGame_roll_dice(cli.command.dice, rolls, ai,
                                                cli.character_id))
    /\ UNCHANGED <<observed, file, process>>

\* the attack_roll tool called with damage dice "1d8", over its draws
AttackResults(attacker_bonus, target_ac, damage_bonus) ==
    LET damage_dice == Notation(1, 8)
    IN  UNION {
          LET rolling == DamageBranch(attack_d20, attacker_bonus, target_ac)
              twice == rolling /\ attack_d20 = NatCrit
          IN  {attack_roll(attacker_bonus, target_ac, damage_dice,
                           damage_bonus, attack_d20, rolls1, rolls2) :
                 rolls1 \in IF rolling THEN RollOutcomes(damage_dice)
                                       ELSE {<<>>},
                 rolls2 \in IF twice THEN RollOutcomes(damage_dice)
                                     ELSE {<<>>}} :
          attack_d20 \in 1..D20}

\* "attack <bonus> <target_ac>", or the usage when an argument is missing
CliAttack ==
    /\ Dispatching("attack")
    /\ LET parts == cli.command.parts
       IN  IF Len(parts) >= 2
           THEN LET readable == ParseInt(parts[1]).ok /\ ParseInt(parts[2]).ok
                IN  \E ai \in AiOutcomes,
                       result \in IF readable
                                  THEN AttackResults(ParseInt(parts[1]).val,
                                                     ParseInt(parts[2]).val,
                                                     AttackDamageBonus)
                                  ELSE {NoResult} :
                      cli' = game_loop(cli,
                                DnDGame_attack_roll(parts[1], parts[2], result,
                                                    ai, cli.character_id))
           ELSE cli' = game_loop(cli,
                          Done(<<Printed("attack_usage", NoResult)>>, "none",
                               cli.character_id))
    /\ UNCHANGED <<observed, file, process>>

\* "check <skill>"
CliCheck ==
    /\ Dispatching("check")
    /\ \E d20 \in 1..D20, ai \in AiOutcomes :
        LET modifier == SkillModifier(cli.command.skill, cli.character_id,
                                      CharacterInfo)
            result == roll_dice(Notation(1, D20), modifier, <<d20>>)
        IN  cli' = game_loop(cli,
                      DnDGame_skill_check(cli.command.skill, CharacterInfo,
                                          result, ai, cli.character_id))
    /\ UNCHANGED <<observed, file, process>>

\* "describe <scene>"
CliDescribe ==
    /\ Dispatching("describe")
    /\ \E ai \in AiOutcomes :
        cli' = game_loop(cli, Done(ai_describe(ai), "none", cli.character_id))
    /\ UNCHANGED <<observed, file, process>>

\* "combat <enemy>"
CliCombat ==
    /\ Dispatching("combat")
    /\ \E d20 \in 1..D20, ai \in AiOutcomes,
          attack_result \in AttackResults(CombatBonus, CombatAC,
                                          CombatDamageBonus) :
        LET init_result == roll_dice(Notation(1, D20), InitiativeModifier,
                                     <<d20>>)
        IN  cli' = game_loop(cli,
                      DnDGame_combat_encounter(init_result, attack_result, ai,
                                               cli.character_id))
    /\ UNCHANGED <<observed, file, process>>

----------------------------------------------------------------------------
(* The web front end, simple_web_server.py *)

\* "damage = random.randint(1, 8) + 2"
WebDamageDie == 8
WebDamageBonus == 2

\* the JSON bodies posted to /api/attack: bonus and ac, and one without ac
WebRequests ==
    {[op |-> "handle_attack", data |-> [bonus |-> b, ac |-> a]] :
        b \in AttackerBonuses, a \in TargetACs}
    \cup {[op |-> "handle_attack", data |-> [bonus |-> 5]]}

\* handle_attack when the d20 comes out as roll and the damage die, where
\* it is rolled, as damage_roll: the response it sends
handle_attack(data, roll, damage_roll) ==
    IF DOMAIN data # {"bonus", "ac"}
    THEN [kind |-> "response", status |-> 500]      \* KeyError, "except Exception"
    ELSE LET total == roll + data.bonus
             hit == total >= data.ac
         IN  [kind |-> "response", status |-> 200,
              body |-> [hit |-> hit,
                        description |->
                            IF hit
                            THEN [template |-> "Hit!", roll |-> roll,
                                  total |-> total,
                                  damage |-> <<damage_roll[1] + WebDamageBonus>>]
                            ELSE [template |-> "Miss!", roll |-> roll,
                                  total |-> total, damage |-> None]]]

\* the web server with one POST to /api/attack received and not answered;
\* it does not use the server of the tools
InitWeb ==
    /\ call \in WebRequests
    /\ ret = NoResult
    /\ draws = <<>>
    /\ fetched = <<>>
    /\ characters = <<>>
    /\ seq = 0
    /\ schema = FALSE
    /\ proc = [state |-> "stopped", runs |-> 0, exit |-> "none"]
    /\ handles = <<>>
    /\ global_db = None
    /\ tasks = [t \in Tasks |-> Idle]
    /\ created = <<>>
    /\ cli = CliOff

\* do_POST for /api/attack
HandleAttack ==
    /\ call.op = "handle_attack"
    /\ ret = NoResult
    /\ \E roll \in 1..D20 :
        LET readable == DOMAIN call.data = {"bonus", "ac"}
            hit == readable /\ roll + call.data.bonus >= call.data.ac
        IN  \E damage_roll \in IF hit THEN [1..1 -> 1..WebDamageDie]
                                      ELSE {<<>>} :
              /\ ret' = handle_attack(call.data, roll, damage_roll)
              /\ draws' = IF readable THEN <<roll>> \o damage_roll ELSE <<>>
    /\ UNCHANGED <<call, fetched, file, process, cli>>

----------------------------------------------------------------------------
(* Specifications *)

\* the tools that compute without the store, serving one request
NextMechanics == RollDice \/ AttackRoll \/ CalculateModifier

SpecMechanics == InitMechanics /\ [][NextMechanics]_vars

\* one client creating characters, over every level and score of the inputs
NextCharacters ==
    \/ \E request \in CreateRequests : CreateCharacter(1, request)
    \/ CreateReturn(1)

SpecCharacters == InitCharacters /\ [][NextCharacters]_vars

\* the server process with its store, its tools and resources and the
\* invocations in flight
Next ==
    \/ Startup
    \/ StartupSchemaFailure
    \/ Shutdown
    \/ \E t \in Tasks, request \in ClientRequests : CreateCharacter(t, request)
    \/ \E t \in Tasks : CreateReturn(t)
    \/ GetCharacterInfo
    \/ GetCharacterSheet
    \/ ListAllCharacters
    \/ GetPrompt

Spec == Init /\ [][Next]_vars

\* the command line client and the server it started, one command at a time
NextCli ==
    \/ CliStart
    \/ ReadCommand
    \/ CliInterrupt
    \/ CliQuit
    \/ CliHelp
    \/ CliUnknown
    \/ CliCreate
    \/ CliCharacter
    \/ CliRoll
    \/ CliAttack
    \/ CliCheck
    \/ CliDescribe
    \/ CliCombat

SpecCli == InitCharacters /\ [][NextCli]_vars

\* one create_character request, over every level and constitution
NextDerived == CreateRequested \/ CreateReturn(1)

SpecDerived == InitDerived /\ [][NextDerived]_vars

\* the web front end answering one POST to /api/attack
NextWeb == HandleAttack

SpecWeb == InitWeb /\ [][NextWeb]_vars

----------------------------------------------------------------------------
(* Properties of the dice roller, checked under SpecMechanics *)

Served(op) == call.op = op /\ ret.kind # "none"

\* C1: for a notation "NdS" with 1 <= N <= 20 and S >= 1 and any modifier,
\* roll_dice returns exactly N draws, each in 1..S, and a total equal to the
\* sum of the draws plus the modifier.
C1_RollShape ==
    \A n \in 1..DiceCap, s \in 1..MaxFaces :
        (Served("roll_dice") /\ call.dice_notation = Notation(n, s)) =>
            /\ ret.kind = "DiceRoll"
            /\ Len(ret.individual_rolls) = n
            /\ \A i \in 1..n : ret.individual_rolls[i] \in 1..s
            /\ ret.total = Sum(ret.individual_rolls) + call.modifier

C1_Witness ==
    /\ Served("roll_dice")
    /\ call.dice_notation = Notation(2, 3)
    /\ call.modifier = 0 - 1
    /\ ret.kind = "DiceRoll"
    /\ ret.individual_rolls = <<3, 1>>
    /\ ret.total = 3

\* the positions of 'd' or 'D' in a notation
DPositions(notation) ==
    {i \in 1..Len(notation) : notation[i] = "d" \/ notation[i] = "D"}

\* a notation roll_dice has to reject: not exactly one 'd', a side of the
\* 'd' that is not an integer, or N <= 0, S <= 0 or N > 20
Rejectable(notation) ==
    \/ Cardinality(DPositions(notation)) # 1
    \/ LET i == CHOOSE k \in DPositions(notation) : TRUE
           n == ParseInt(SubSeq(notation, 1, i - 1))
           sd == ParseInt(SubSeq(notation, i + 1, Len(notation)))
       IN  \/ ~n.ok
           \/ ~sd.ok
           \/ n.val <= 0
           \/ sd.val <= 0
           \/ n.val > 20

RejectedExamples ==
    {<<"0", "d", "6">>, <<"2", "d", "0">>, <<"2", "1", "d", "6">>,
     <<"d", "6">>, <<"2", "d">>, <<"a", "b", "c">>}

\* C2: roll_dice raises the validation error, and returns no DiceRoll, for
\* every notation that does not split on 'd' into exactly two integers or
\* has N <= 0, S <= 0 or N > 20, "0d6", "2d0", "21d6", "d6", "2d" and "abc"
\* among them; N = 20 is accepted.
C2_Rejects ==
    Served("roll_dice") =>
        /\ Rejectable(call.dice_notation) =>
              (ret.kind = "ValueError" /\ draws = <<>>)
        /\ call.dice_notation \in RejectedExamples => ret.kind = "ValueError"
        /\ call.dice_notation = <<"2", "0", "d", "1">> =>
              (ret.kind = "DiceRoll" /\ Len(ret.individual_rolls) = 20)

C2_Witness ==
    /\ Served("roll_dice")
    /\ call.dice_notation = <<"2", "1", "d", "6">>
    /\ ret.kind = "ValueError"
    /\ ret.msg = "Maximum 20 dice per roll"

----------------------------------------------------------------------------
(* Properties of the combat resolver, checked under SpecMechanics *)

\* the natural d20 of the attack served
Natural == draws[1]

\* C3: a natural 1 never produces a hit, whatever the bonus and the AC:
\* hit = critical or (not critical miss and attack total >= target AC).
C3_NaturalOneNeverHits ==
    (Served("attack_roll") /\ ret.kind = "AttackResult") =>
        /\ Natural = 1 => ret.hit = FALSE
        /\ ret.hit = (\/ Natural = 20
                      \/ (Natural # 1 /\
                          Natural + call.attacker_bonus >= call.target_ac))

\* C4: a natural 20 is a hit and a critical whatever the AC and the bonus,
\* and its damage is two rolls of the damage notation plus the damage
\* bonus once.
C4_NaturalTwenty ==
    (Served("attack_roll") /\ ret.kind = "AttackResult" /\ Natural = 20) =>
        /\ ret.hit = TRUE
        /\ ret.critical = TRUE
        /\ ret.damage = <<Sum(Tail(draws)) + call.damage_bonus>>
        /\ \E n \in 1..DiceCap, s \in 1..MaxFaces :
              /\ call.damage_dice = Notation(n, s)
              /\ Len(draws) = 1 + n + n
              /\ \A i \in 2..Len(draws) : draws[i] \in 1..s

C4_Witness ==
    /\ Served("attack_roll")
    /\ call.attacker_bonus = 0
    /\ call.target_ac = 25
    /\ call.damage_dice = Notation(2, 2)
    /\ call.damage_bonus = 1
    /\ draws = <<20, 1, 2, 2, 1>>
    /\ ret.kind = "AttackResult"
    /\ ret.hit = TRUE
    /\ ret.damage = <<7>>

\* C5: with bonus 0, an attack against AC 0 is reported as a hit for every
\* natural roll, and an attack against AC 25 is reported as a hit exactly
\* on a natural 20.
C5_HitExtremes ==
    (Served("attack_roll") /\ ret.kind = "AttackResult"
                           /\ call.attacker_bonus = 0) =>
        /\ call.target_ac = 0 => ret.hit = TRUE
        /\ call.target_ac = 25 => (ret.hit = TRUE <=> Natural = 20)

C5_Witness ==
    /\ Served("attack_roll")
    /\ call.attacker_bonus = 0
    /\ call.target_ac = 25
    /\ Natural = 20
    /\ ret.kind = "AttackResult"
    /\ ret.hit = TRUE

\* C6: an AttackResult carries a damage amount exactly when hit is true.
C6_DamageIffHit ==
    (Served("attack_roll") /\ ret.kind = "AttackResult") =>
        (ret.hit = TRUE <=> ret.damage # None)

MalformedDamage == {<<"a", "b", "c">>, <<"0", "d", "6">>, <<"2", "d">>}

\* C7 as stated: with a malformed damage notation attack_roll raises the
\* validation error whatever the d20 shows.
C7_MalformedAlwaysFails ==
    (Served("attack_roll") /\ call.damage_dice \in MalformedDamage) =>
        ret.kind = "ValueError"

\* C7 as amended: attack_roll raises exactly when the damage notation is
\* malformed and damage is rolled, that is when the natural roll is not 1
\* and (natural roll + bonus >= target AC or the natural roll is 20); what it
\* raises is the error roll_dice raises for that notation, and otherwise it
\* returns an AttackResult.
C7_FailsWhenDamageRolled ==
    Served("attack_roll") =>
        /\ ret.kind \in {"AttackResult", "ValueError"}
        /\ ret.kind = "ValueError" <=>
              /\ call.damage_dice \in MalformedDamage
              /\ Natural # 1
              /\ (Natural + call.attacker_bonus >= call.target_ac
                  \/ Natural = 20)
        /\ ret.kind = "ValueError" =>
              /\ ret.prefix = "Dice rolling error: "
              /\ draws = <<Natural>>

C7_Witness ==
    /\ Served("attack_roll")
    /\ call.damage_dice = <<"a", "b", "c">>
    /\ call.attacker_bonus = 0
    /\ call.target_ac = 25
    /\ draws = <<20>>
    /\ ret.kind = "ValueError"

----------------------------------------------------------------------------
(* Properties of the character calculator *)

\* C8: calculate_modifier(score) is the floor of (score - 10) / 2: the
\* integer r with 2r <= score - 10 < 2r + 2; 10 -> 0, 9 -> -1, 20 -> 5,
\* 3 -> -4.  Checked under SpecMechanics.
C8_FloorModifier ==
    Served("calculate_modifier") =>
        /\ 2 * ret.value <= call.ability_score - 10
        /\ call.ability_score - 10 < 2 * ret.value + 2
        /\ call.ability_score = 10 => ret.value = 0
        /\ call.ability_score = 9 => ret.value = 0 - 1
        /\ call.ability_score = 20 => ret.value = 5
        /\ call.ability_score = 3 => ret.value = 0 - 4

C8_Witness ==
    /\ Served("calculate_modifier")
    /\ call.ability_score = 9
    /\ ret.value = 0 - 1

\* the rows of the table with the id of the character returned
PersistedAs(character) ==
    {i \in 1..Len(characters) : <<characters[i].id>> = character.id}

\* C9: create_character sets hit_points to
\* 10 + conMod + (level - 1) * (6 + conMod), conMod being
\* calculate_modifier(constitution), and current_hp to hit_points, in the
\* record it returns and in the one it persists; constitution 14 gives 12
\* at level 1 and 28 at level 3.  Checked under SpecCharacters.
C9_HitPoints ==
    Served("create_character") =>
        LET conMod == calculate_modifier(call.constitution)
            hp == 10 + conMod + (call.level - 1) * (6 + conMod)
        IN  /\ ret.character.hit_points = hp
            /\ ret.character.current_hp = hp
            /\ Cardinality(PersistedAs(ret.character)) = 1
            /\ \A i \in PersistedAs(ret.character) :
                  /\ characters[i].hit_points = hp
                  /\ characters[i].current_hp = hp
            /\ (call.constitution = 14 /\ call.level = 1) => hp = 12
            /\ (call.constitution = 14 /\ call.level = 3) => hp = 28

C9_Witness ==
    /\ Served("create_character")
    /\ call.constitution = 14
    /\ call.level = 3
    /\ ret.character.hit_points = 28
    /\ Len(characters) = 2
    /\ characters[2].current_hp = 28

\* C10: create_character sets armor_class to
\* 10 + calculate_modifier(dexterity) whatever the other arguments are;
\* dexterity 14 gives 12.  Checked under SpecCharacters.
C10_ArmorClass ==
    Served("create_character") =>
        LET ac == 10 + calculate_modifier(call.dexterity)
        IN  /\ ret.character.armor_class = ac
            /\ \A i \in PersistedAs(ret.character) :
                  characters[i].armor_class = ac
            /\ call.dexterity = 14 => ac = 12

C10_Witness ==
    /\ Served("create_character")
    /\ call.dexterity = 14
    /\ call.constitution = 3
    /\ call.strength = 8
    /\ ret.character.armor_class = 12
    /\ characters[Len(characters)].armor_class = 12

----------------------------------------------------------------------------
(* Properties of the character store and of the server process, checked   *)
(* under Spec                                                              *)

\* the entries of the history with a given id
CreatedWith(id) == {i \in 1..Len(created) : created[i].character.id = id}

\* a step that serves get_character_info
GetServed == call'.op = "get_character_info" /\ GetCharacterInfo

\* a step that serves the list of all characters
ListServed == call'.op = "list_all_characters" /\ ListAllCharacters

\* C11: once create_character has returned a character with id i,
\* get_character_info(i) returns a record equal to it in every field, after
\* whatever tools and resources were served in between.
C11_RoundTrip ==
    [][GetServed =>
          \A i \in CreatedWith(<<call'.character_id>>) :
              created[i].returned =>
                  /\ ret'.kind = "Character"
                  /\ ret'.character = created[i].character
                  /\ ret'.character.armor_class =
                        10 + calculate_modifier(created[i].request.dexterity)
                  /\ ret'.character.current_hp = ret'.character.hit_points
      ]_vars

C11_Witness ==
    /\ Served("get_character_info")
    /\ call.character_id = 1
    /\ ret.kind = "Character"
    /\ ret.character.armor_class = 12
    /\ Len(created) = 2
    /\ created[1].returned
    /\ global_db # None
    /\ proc.runs = 2

\* the class of the error roll_dice raises for a malformed notation
ValidationErrorKind == roll_dice(<<"a", "b", "c">>, 0, <<>>).kind

\* C12: get_character_info with an id no create_character has produced
\* fails with a not-found condition that is neither a generic error, nor
\* the validation error, nor a storage failure.
C12_NotFoundDistinct ==
    [][(GetServed /\ CreatedWith(<<call'.character_id>>) = {}) =>
          /\ ret'.kind # "Character"
          /\ ret'.kind \notin {"Exception", ValidationErrorKind,
                                "sqlite3.Error"}
          /\ characters' = characters
      ]_vars

\* C13: listing an empty store gives the empty sequence; after N creations
\* it gives N records, one per created id, each the record get_character
\* gives for that id.
C13_ListMatchesCreations ==
    [][ListServed =>
          /\ Len(fetched') = Len(created)
          /\ created = <<>> =>
                (fetched' = <<>> /\ ret'.text.template = "No characters found.")
          /\ \A i \in 1..Len(created) :
                /\ Cardinality({j \in 1..Len(fetched') :
                       fetched'[j].id = created[i].character.id}) = 1
                /\ \E j \in 1..Len(fetched') :
                       fetched'[j] = created[i].character
          /\ \A j \in 1..Len(fetched') :
                get_character(characters', fetched'[j].id[1]) = <<fetched'[j]>>
      ]_vars

C13_Witness ==
    /\ Served("list_all_characters")
    /\ Len(created) = 2
    /\ Len(fetched) = 2
    /\ fetched[1].name # fetched[2].name
    /\ ret.text.template = "# All Characters"

\* C14: the ids create_character assigns are pairwise distinct, a character
\* has no id before it is persisted, and the id of a persisted row never
\* changes.
C14_FreshIds ==
    [][/\ \A i, j \in 1..Len(created') :
             i # j => created'[i].character.id # created'[j].character.id
       /\ \A i, j \in 1..Len(characters') :
             i # j => characters'[i].id # characters'[j].id
       /\ \A t \in Tasks :
             (tasks[t] = Idle /\ tasks'[t] # Idle) =>
                /\ \A k \in 1..Len(characters) :
                      <<characters[k].id>> # tasks'[t].character.id
                /\ [tasks'[t].character EXCEPT !.id = None] =
                      NewCharacter(tasks'[t].request.name,
                                   tasks'[t].request.character_class,
                                   tasks'[t].request.level,
                                   tasks'[t].request.strength,
                                   tasks'[t].request.dexterity,
                                   tasks'[t].request.constitution,
                                   tasks'[t].request.intelligence,
                                   tasks'[t].request.wisdom,
                                   tasks'[t].request.charisma)
       /\ Len(characters') >= Len(characters)
       /\ \A k \in 1..Len(characters) : characters'[k].id = characters[k].id
      ]_vars

C14_Witness ==
    /\ Len(created) = 2
    /\ created[1].character.id = <<1>>
    /\ created[2].character.id = <<2>>
    /\ created[1].request = created[2].request
    /\ proc.runs = 2
    /\ \E t \in Tasks : tasks[t] # Idle

\* a step that serves one of the two resources
ResourceRead ==
    \/ call'.op = "get_character_sheet" /\ GetCharacterSheet
    \/ call'.op = "list_all_characters" /\ ListAllCharacters

\* C15: a read of the character sheet or of the list leaves the persisted
\* records as they were.
C15_ResourcesReadOnly ==
    [][ResourceRead => (characters' = characters /\ seq' = seq)]_vars

C15_Witness ==
    /\ Served("get_character_sheet")
    /\ ret.text.template = "sheet"
    /\ Len(characters) = 2
    /\ global_db # None

\* the handles with a live connection
Live == {h \in 1..Len(handles) : handles[h].open}

\* C16: the handle of the tools and the handle of the resources are the
\* same store instance; there are never two live connections.
C16_SingleConnection ==
    /\ Cardinality(Live) <= 1
    /\ global_db # None => global_db = <<LifespanDb>>

\* C17: the connection is established once, before any tool is served, and
\* every connection the process opened is closed when the process has ended,
\* on every exit path.
C17_AllClosedAtEnd ==
    /\ proc.state = "serving" => handles[LifespanDb].open
    /\ proc.state = "ended" => Live = {}

\* C18: every store call is one atomic unit: no connection is left with an
\* uncommitted insert while another invocation can run, what a reader gets
\* are whole committed records, and creations in flight together get
\* distinct ids and one row each, holding the fields of that invocation.
C18_AtomicStoreCalls ==
    /\ \A h \in 1..Len(handles) : handles[h].txn = <<>>
    /\ \A j \in 1..Len(fetched) :
          /\ \E i \in 1..Len(created) : fetched[j] = created[i].character
          /\ \E k \in 1..Len(characters) :
                RowToCharacter(characters[k]) = fetched[j]
    /\ Len(characters) = Len(created)
    /\ \A i \in 1..Len(created) :
          /\ CreatedWith(created[i].character.id) = {i}
          /\ \E k \in 1..Len(characters) :
                /\ <<characters[k].id>> = created[i].character.id
                /\ characters[k].name = created[i].request.name
                /\ characters[k].character_class =
                      created[i].request.character_class
                /\ characters[k].level = created[i].request.level
                /\ characters[k].strength = created[i].request.strength
                /\ characters[k].dexterity = created[i].request.dexterity
                /\ characters[k].constitution = created[i].request.constitution
                /\ characters[k].intelligence = created[i].request.intelligence
                /\ characters[k].wisdom = created[i].request.wisdom
                /\ characters[k].charisma = created[i].request.charisma
    /\ \A t1, t2 \in Tasks :
          (t1 # t2 /\ tasks[t1] # Idle /\ tasks[t2] # Idle) =>
              tasks[t1].character.id # tasks[t2].character.id

C18_Witness ==
    /\ tasks[1] # Idle
    /\ tasks[2] # Idle
    /\ tasks[1].request # tasks[2].request
    /\ Served("list_all_characters")
    /\ Len(fetched) = 2

\* a step in which a Database connects and runs create_tables
ConnectStep == Startup \/ (global_db = None /\ global_db' # None)

\* C19: schema creation is idempotent: a connect, the second handle's
\* included, leaves every persisted record as it was.
C19_SchemaIdempotent ==
    [][ConnectStep =>
          /\ schema'
          /\ characters' = characters
          /\ seq' = seq]_vars

C19_Witness ==
    /\ proc.runs = 2
    /\ proc.state = "serving"
    /\ global_db # None
    /\ Len(characters) = 2
    /\ Len(created) = 2

----------------------------------------------------------------------------
(* Properties of the command line client, checked under SpecCli *)

\* the narration service raised at step i of the last command
NarrationFailedAt(i) ==
    /\ cli.trace[i].event = "ai_call"
    /\ cli.trace[i].outcome = "raised"

\* the lines that report the mechanics result of a command
MechanicsLines(op) ==
    CASE op = "create" -> {"created"}
      [] op = "roll" -> {"roll"}
      [] op = "attack" -> {"attack"}
      [] op = "check" -> {"check"}
      [] op = "combat" -> {"initiative", "combat_attack"}
      [] OTHER -> {}

\* line was printed before step i, from the result a tool call returned
ReportedBefore(line, i) ==
    \E k \in 1..(i - 1), j \in 1..(i - 1) :
        /\ k < j
        /\ cli.trace[k].event = "tool"
        /\ cli.trace[j].event = "print"
        /\ cli.trace[j].line = line
        /\ cli.trace[j].result = cli.trace[k].result

\* C20: when the narration service fails during a command, the game loop is
\* still running and at its prompt for the next command, the failure was
\* printed after the attempt, every mechanics result of the command was
\* printed before the attempt from what the tool returned, and a character
\* created by the command is the client's character and is in the store.
C20_NarrationFailureContained ==
    cli.loop # "off" =>
        \A i \in 1..Len(cli.trace) :
            NarrationFailedAt(i) =>
                /\ cli.loop = "running"
                /\ cli.pc = "input"
                /\ \E j \in (i + 1)..Len(cli.trace) :
                      /\ cli.trace[j].event = "print"
                      /\ cli.trace[j].line \in {"ai_failed", "error"}
                /\ \A line \in MechanicsLines(cli.command.op) :
                      ReportedBefore(line, i)
                /\ cli.command.op = "create" =>
                      /\ cli.character_id # None
                      /\ \E k \in 1..(i - 1) :
                            /\ cli.trace[k].event = "tool"
                            /\ cli.trace[k].result.character.id = cli.character_id
                            /\ get_character(characters, cli.character_id[1])
                               = <<cli.trace[k].result.character>>

\* a combat of a player with a character: the attack hit, both results were
\* printed, the narration request raised and the loop printed the error
C20_Witness ==
    /\ cli.loop = "running"
    /\ cli.pc = "input"
    /\ cli.command.op = "combat"
    /\ Len(cli.trace) = 6
    /\ NarrationFailedAt(5)
    /\ cli.trace[6] = Printed("error", NoResult)
    /\ cli.trace[4].line = "combat_attack"
    /\ cli.trace[4].result.hit
    /\ cli.character_id # None

----------------------------------------------------------------------------
(* Further properties of the dice roller, checked under SpecMechanics *)

\* the lowercase "NdS" of a notation roll_dice accepted
Normalized(dice_notation) ==
    LET p == ParseNotation(dice_notation)
    IN  Notation(p.num_dice, p.num_sides)

\* C21: the dice_notation of every DiceRoll that roll_dice returns is the
\* lowercase "NdS" of the notation it rolled.
C21_NotationNormalized ==
    (Served("roll_dice") /\ ret.kind = "DiceRoll") =>
        ret.dice_notation = Normalized(call.dice_notation)

----------------------------------------------------------------------------
(* Further properties of character creation, checked under SpecCharacters *)

\* C22: every row of the characters table has level >= 1.
C22_LevelAtLeastOne ==
    \A i \in 1..Len(characters) : characters[i].level >= 1

----------------------------------------------------------------------------
(* Properties of the derived stats, checked under SpecDerived *)

\* C28: a character created with level >= 1 and a constitution in 3..20 has
\* hit_points of at least 6, in the record returned and in the row persisted;
\* so hit_points <= 0 comes with a level below 1 or a constitution outside
\* 3..20.
C28_PositiveHitPoints ==
    /\ \A i \in 1..Len(characters) :
          /\ (characters[i].level >= 1 /\ characters[i].constitution \in 3..20)
                => characters[i].hit_points >= 6
          /\ characters[i].hit_points <= 0
                => (characters[i].level < 1
                    \/ characters[i].constitution \notin 3..20)
    /\ (Served("create_character") /\ call.level >= 1
        /\ call.constitution \in 3..20) => ret.character.hit_points >= 6

\* the least case: level 1 with constitution 3 gives 6, returned and persisted
C28_Witness ==
    /\ Served("create_character")
    /\ call.level = 1
    /\ call.constitution = 3
    /\ ret.character.hit_points = 6
    /\ Len(characters) = 1
    /\ characters[1].hit_points = 6

----------------------------------------------------------------------------
(* Further properties of the server and its store, checked under Spec *)

\* C23: no step of the server (start, stop, tool, resource, prompt) removes
\* or changes a row of the characters table: every row is still there, at its
\* place and with the same values, after the step.
C23_StoreOnlyGrows ==
    [][/\ Len(characters') >= Len(characters)
       /\ \A i \in 1..Len(characters) : characters'[i] = characters[i]]_vars

\* two rows that went through a restart and a resource read, a prompt being
\* the last thing served
C23_Witness ==
    /\ Len(characters) = 2
    /\ proc.runs = 2
    /\ proc.state = "serving"
    /\ global_db # None
    /\ call.op = "describe_location"
    /\ ret.kind = "str"

\* a step that serves the character sheet resource
SheetServed == call'.op = "get_character_sheet" /\ GetCharacterSheet

\* the creations whose create_character has returned
Returned == {k \in 1..Len(created) : created[k].returned}

\* C24: once create_character has returned a character with id i, every read
\* of the character sheet for i renders that character and every read of the
\* list has a line for it, through the handle of the resources.
C24_ResourcesRenderCurrent ==
    [][/\ SheetServed =>
            \A k \in Returned :
                (/\ ParseInt(call'.character_id).ok
                 /\ <<ParseInt(call'.character_id).val>>
                        = created[k].character.id)
                    => ret'.text = SheetText(created[k].character)
       /\ ListServed =>
            \A k \in Returned :
                /\ ret'.text.template = "# All Characters"
                /\ \E j \in 1..Len(ret'.text.lines) :
                      ret'.text.lines[j] =
                          [name |-> created[k].character.name,
                           id |-> created[k].character.id[1],
                           level |-> created[k].character.level,
                           character_class |->
                               created[k].character.character_class]]_vars

\* the sheet of the second character created, read through the second handle
\* after create_character returned it
C24_Witness ==
    /\ Served("get_character_sheet")
    /\ 2 \in Returned
    /\ created[2].character.id = <<2>>
    /\ ret.text = SheetText(created[2].character)
    /\ global_db = <<2>>
    /\ handles[2].owner = "global"

\* the handles get_db has connected in this process
Lazy == {h \in 1..Len(handles) : handles[h].owner = "global"}

\* C26: get_db connects at most one handle in a process and keeps it in
\* _global_db: a resource read made while _global_db is set opens nothing
\* and leaves _global_db as it is.
C26_OneLazyHandle ==
    [][/\ Cardinality(Lazy') <= 1
       /\ global_db' # None => Lazy' = {global_db'[1]}
       /\ (ResourceRead /\ global_db # None) =>
             /\ handles' = handles
             /\ global_db' = global_db]_vars

\* the list read through the lazy handle of the second process, the only
\* handle beside the one of app_lifespan
C26_Witness ==
    /\ Served("list_all_characters")
    /\ proc.runs = 2
    /\ Len(handles) = 2
    /\ Lazy = {2}
    /\ global_db = <<2>>
    /\ Len(fetched) = 2

\* C27: the character sheet resource answers with a text for every id: with
\* "Invalid character ID: <id>" when the id is no integer and with
\* "Character <id> not found" when it is one and no row has it, where
\* get_character_info raises for an id no row has.
C27_SheetNeverRaises ==
    [][/\ SheetServed =>
            LET char_id == ParseInt(call'.character_id)
            IN  /\ ret'.kind = "str"
                /\ ~char_id.ok =>
                      ret'.text =
                          [template |-> "Invalid character ID: {character_id}",
                           character_id |-> call'.character_id]
                /\ (char_id.ok
                    /\ \A i \in 1..Len(characters') :
                          characters'[i].id # char_id.val) =>
                      ret'.text =
                          [template |-> "Character {character_id} not found",
                           character_id |-> call'.character_id]
       /\ (GetServed
           /\ \A i \in 1..Len(characters') :
                 characters'[i].id # call'.character_id) =>
              ret'.kind = "ValueError"]_vars

\* the sheet asked for an id that no row of a store with rows has
C27_Witness ==
    /\ Served("get_character_sheet")
    /\ call.character_id = Decimal(MaxChars + 1)
    /\ ret.text.template = "Character {character_id} not found"
    /\ Len(characters) >= 1

----------------------------------------------------------------------------
(* Properties of the web front end, checked under SpecWeb *)

\* C25: for the natural d20, the bonus and the AC of a POST to /api/attack,
\* the hit of the response equals the hit attack_roll computes for them.
C25_WebHitEqualsCore ==
    (Served("handle_attack") /\ ret.status = 200) =>
        ret.body.hit = AttackHit(draws[1], call.data.bonus, call.data.ac)

====
